---- MODULE Spec2Model ----
(***************************************************************************)
(* Model of the Trie class of bcachectl.py: a prefix tree over identifier  *)
(* strings with insert, find, shorten and prefixes, and of the Bcache      *)
(* objects that keep their identifiers in one shared Trie.                 *)
(*                                                                         *)
(* A Trie object is identified by the sequence of symbols that leads to it *)
(* from the root object (the root is <<>>).  The variable children maps    *)
(* every existing Trie object to the key set of its children dictionary.   *)
(***************************************************************************)
EXTENDS Naturals, Integers, Sequences, FiniteSets, TLC

\* Bounds of the model: the longest key, the number of Trie objects below
\* the root, the largest minlen asked for, the number of Bcache objects.
MaxLen == 3
MaxNodes == 5
MaxMinlen == 3
MaxObjects == 4

\* The minlen Bcache.id and Bcache.parent pass to shorten.
IdMinlen == 4

\* The alphabet.  The code only ever asks whether a node has no child, one
\* child or more than one, so two symbols give every kind of node.
Symbols == {"a", "b"}

\* The non-empty strings handed to insert, find and shorten.
Keys == UNION {[1..n -> Symbols] : n \in 1..MaxLen}

VARIABLES children, inserted, call, ret, objects

vars == <<children, inserted, call, ret, objects>>

----------------------------------------------------------------------------
\* Helpers on strings.

IsPrefix(p, q) == Len(p) <= Len(q) /\ SubSeq(q, 1, Len(p)) = p

\* Python's key[:n] for n >= 0: the slice is cut at the end of the string.
Slice(key, n) == SubSeq(key, 1, IF n > Len(key) THEN Len(key) ELSE n)

\* The three kinds of value find and shorten return, and the set prefixes
\* returns.
False == [tag |-> "bool"]
Str(s) == [tag |-> "str", s |-> s]
Tuple(s, node) == [tag |-> "tuple", s |-> s, node |-> node]
SetOf(found) == [tag |-> "set", found |-> found]
None == [tag |-> "none"]

----------------------------------------------------------------------------
\* Trie.__init__: a fresh object with an empty children dictionary.
TrieInit == [p \in {<<>>} |-> {}]

\* insert that always stores a fresh Trie() under ch, dropping the subtree
\* that was there.
RECURSIVE insertOverwrite(_, _, _)
insertOverwrite(t, self, key) ==
    LET ch == Head(key)
        child == Append(self, ch)
        keep == {x \in DOMAIN t : ~IsPrefix(child, x)} \cup {child}
        t1 == [x \in keep |->
                 IF x = self THEN t[self] \cup {ch}
                 ELSE IF x = child THEN {}
                 ELSE t[x]]
    IN  IF Len(key) > 1 THEN insertOverwrite(t1, child, Tail(key)) ELSE t1

\* insert that makes no object for the last symbol of the key.
RECURSIVE insertNoLast(_, _, _)
insertNoLast(t, self, key) ==
    LET ch == Head(key)
        child == Append(self, ch)
        t1 == IF ch \notin t[self] /\ Len(key) > 1
              THEN [x \in DOMAIN t \cup {child} |->
                      IF x = self THEN t[self] \cup {ch}
                      ELSE IF x = child THEN {}
                      ELSE t[x]]
              ELSE t
    IN  IF Len(key) > 1 THEN insertNoLast(t1, child, Tail(key)) ELSE t1

\* Trie.insert
RECURSIVE insert(_, _, _)
insert(t, self, key) ==
    LET ch == Head(key)
        child == Append(self, ch)
        t1 == IF ch \notin t[self]
              THEN [x \in DOMAIN t \cup {child} |->
                      IF x = self THEN t[self] \cup {ch}
                      ELSE IF x = child THEN {}
                      ELSE t[x]]
              ELSE t
    IN  IF Len(key) > 1 THEN insert(t1, child, Tail(key)) ELSE t1

----------------------------------------------------------------------------
\* Trie.find, the branch taken when key is None.
RECURSIVE findNone(_, _)
findNone(t, self) ==
    IF Cardinality(t[self]) = 0 THEN Str(<<>>)
    ELSE IF Cardinality(t[self]) > 1 THEN Tuple(<<>>, self)
    ELSE LET ch == CHOOSE c \in t[self] : TRUE
             tail == findNone(t, Append(self, ch))
         IN  IF tail.tag = "str" THEN Str(<<ch>> \o tail.s)
             ELSE IF tail.tag = "bool" THEN tail
             ELSE Tuple(<<ch>> \o tail.s, tail.node)

\* find that forgets to put the consumed symbol in front of an ambiguous
\* result.
RECURSIVE findDropCh(_, _, _)
findDropCh(t, self, key) ==
    LET ch == Head(key) IN
    IF ch \notin t[self] THEN False
    ELSE LET child == Append(self, ch)
             tail == IF Len(key) = 1 THEN findNone(t, child)
                     ELSE findDropCh(t, child, Tail(key))
         IN  IF tail.tag = "str" THEN Str(<<ch>> \o tail.s)
             ELSE IF tail.tag = "bool" THEN tail
             ELSE Tuple(tail.s, tail.node)

\* find that reports an ambiguous prefix as a failed find.
RECURSIVE findAmbiguousFalse(_, _, _)
findAmbiguousFalse(t, self, key) ==
    LET ch == Head(key) IN
    IF ch \notin t[self] THEN False
    ELSE LET child == Append(self, ch)
             tail == IF Len(key) = 1 THEN findNone(t, child)
                     ELSE findAmbiguousFalse(t, child, Tail(key))
         IN  IF tail.tag = "str" THEN Str(<<ch>> \o tail.s)
             ELSE False

\* Trie.find, the branch taken when key is a string.
RECURSIVE find(_, _, _)
find(t, self, key) ==
    LET ch == Head(key) IN
    IF ch \notin t[self] THEN False
    ELSE LET child == Append(self, ch)
             tail == IF Len(key) = 1 THEN findNone(t, child)
                     ELSE find(t, child, Tail(key))
         IN  IF tail.tag = "str" THEN Str(<<ch>> \o tail.s)
             ELSE IF tail.tag = "bool" THEN tail
             ELSE Tuple(<<ch>> \o tail.s, tail.node)

----------------------------------------------------------------------------
\* Trie.shorten, first loop: the objects reached after each symbol of key,
\* or <<>> when a symbol has no child (the loop returns False).
RECURSIVE walk(_, _, _, _)
walk(t, key, this, items) ==
    IF Len(items) < Len(key)
    THEN LET ch == key[Len(items) + 1] IN
         IF ch \notin t[this] THEN <<>>
         ELSE walk(t, key, Append(this, ch), Append(items, Append(this, ch)))
    ELSE items

\* The backward loop with offset += 1 in place of offset += 2.
RECURSIVE scanOffByOne(_, _, _, _, _)
scanOffByOne(t, key, items, offset, minlen) ==
    IF offset >= 0
    THEN IF Cardinality(t[items[offset + 1]]) = 1
         THEN scanOffByOne(t, key, items, offset - 1, minlen)
         ELSE LET o == offset + 1 IN
              Str(Slice(key, IF o < minlen THEN minlen ELSE o))
    ELSE Str(Slice(key, minlen))

\* The backward loop without the clamp to minlen.
RECURSIVE scanNoClamp(_, _, _, _, _)
scanNoClamp(t, key, items, offset, minlen) ==
    IF offset >= 0
    THEN IF Cardinality(t[items[offset + 1]]) = 1
         THEN scanNoClamp(t, key, items, offset - 1, minlen)
         ELSE Str(Slice(key, offset + 2))
    ELSE Str(Slice(key, minlen))

\* The backward loop giving up when the unique prefix is below minlen.
RECURSIVE scanReject(_, _, _, _, _)
scanReject(t, key, items, offset, minlen) ==
    IF offset >= 0
    THEN IF Cardinality(t[items[offset + 1]]) = 1
         THEN scanReject(t, key, items, offset - 1, minlen)
         ELSE LET o == offset + 2 IN
              IF o < minlen THEN False ELSE Str(Slice(key, o))
    ELSE Str(Slice(key, minlen))

\* Trie.shorten, backward loop and the final return.  offset counts from 0
\* as in the source, so items[offset] there is items[offset + 1] here.
RECURSIVE scan(_, _, _, _, _)
scan(t, key, items, offset, minlen) ==
    IF offset >= 0
    THEN IF Cardinality(t[items[offset + 1]]) = 1
         THEN scan(t, key, items, offset - 1, minlen)
         ELSE LET o == offset + 2 IN
              Str(Slice(key, IF o < minlen THEN minlen ELSE o))
    ELSE Str(Slice(key, minlen))

\* shorten without the test that the key ends at an object with no children.
shortenNoLeafCheck(t, key, minlen) ==
    LET items == walk(t, key, <<>>, <<>>) IN
    IF items = <<>> THEN False
    ELSE scan(t, key, items, Len(items) - 2, minlen)

\* shorten whose backward loop starts one object too early.
shortenLateStart(t, key, minlen) ==
    LET items == walk(t, key, <<>>, <<>>) IN
    IF items = <<>> THEN False
    ELSE IF Cardinality(t[items[Len(items)]]) # 0 THEN False
    ELSE scan(t, key, items, Len(items) - 3, minlen)

\* Trie.shorten
shorten(t, key, minlen) ==
    LET items == walk(t, key, <<>>, <<>>) IN
    IF items = <<>> THEN False
    ELSE IF Cardinality(t[items[Len(items)]]) # 0 THEN False
    ELSE scan(t, key, items, Len(items) - 2, minlen)

----------------------------------------------------------------------------
\* prefixes whose one-child case yields the prefix and still descends.
RECURSIVE prefixesFallThrough(_, _, _, _)
prefixesFallThrough(t, self, prefix, minlen) ==
    IF Cardinality(t[self]) = 0 THEN {prefix}
    ELSE (IF Cardinality(t[self]) = 1 /\ Len(prefix) >= minlen
          THEN {prefix} ELSE {})
         \cup UNION {prefixesFallThrough(t, Append(self, ch),
                                         Append(prefix, ch), minlen)
                     : ch \in t[self]}

\* prefixes with len(prefix) > minlen in place of len(prefix) >= minlen.
RECURSIVE prefixesStrict(_, _, _, _)
prefixesStrict(t, self, prefix, minlen) ==
    IF Cardinality(t[self]) = 0 THEN {prefix}
    ELSE IF Cardinality(t[self]) = 1 /\ Len(prefix) > minlen THEN {prefix}
    ELSE UNION {prefixesStrict(t, Append(self, ch), Append(prefix, ch),
                               minlen)
                : ch \in t[self]}

\* Trie.prefixes
RECURSIVE prefixes(_, _, _, _)
prefixes(t, self, prefix, minlen) ==
    IF Cardinality(t[self]) = 0 THEN {prefix}
    ELSE IF Cardinality(t[self]) = 1 /\ Len(prefix) >= minlen THEN {prefix}
    ELSE UNION {prefixes(t, Append(self, ch), Append(prefix, ch), minlen)
                : ch \in t[self]}

----------------------------------------------------------------------------
\* The program: a Trie() is constructed, then insert, find, shorten and
\* prefixes are called on it one after the other, in any order.  inserted
\* records the keys insert was called with; call and ret hold the call that
\* has just returned and its value, until the caller moves on.  The record of
\* an insert says whether the key had been inserted before.  objects is the
\* list of Bcache objects, empty as long as the trie is used on its own.

Idle == [op |-> "none"]

Init ==
    /\ children = TrieInit
    /\ inserted = {}
    /\ call = Idle
    /\ ret = None
    /\ objects = <<>>

Insert(key) ==
    /\ call = Idle
    /\ Cardinality(DOMAIN insert(children, <<>>, key)) <= MaxNodes + 1
    /\ children' = insert(children, <<>>, key)
    /\ inserted' = inserted \cup {key}
    /\ call' = [op |-> "insert", key |-> key, known |-> key \in inserted]
    /\ ret' = None
    /\ UNCHANGED objects

Find(key) ==
    /\ call = Idle
    /\ call' = [op |-> "find", key |-> key]
    /\ ret' = find(children, <<>>, key)
    /\ UNCHANGED <<children, inserted, objects>>

Shorten(key, minlen) ==
    /\ call = Idle
    /\ call' = [op |-> "shorten", key |-> key, minlen |-> minlen]
    /\ ret' = shorten(children, key, minlen)
    /\ UNCHANGED <<children, inserted, objects>>

\* prefixes on the root object.
Prefixes(minlen) ==
    /\ call = Idle
    /\ call' = [op |-> "prefixes", node |-> <<>>, minlen |-> minlen]
    /\ ret' = SetOf(prefixes(children, <<>>, <<>>, minlen))
    /\ UNCHANGED <<children, inserted, objects>>

\* prefixes on the object an ambiguous find has just returned
\* (found[1].prefixes()).
FoundPrefixes(minlen) ==
    /\ call.op = "find"
    /\ ret.tag = "tuple"
    /\ call' = [op |-> "prefixes", node |-> ret.node, minlen |-> minlen]
    /\ ret' = SetOf(prefixes(children, ret.node, <<>>, minlen))
    /\ UNCHANGED <<children, inserted, objects>>

\* The caller is done with the returned value and goes on to its next
\* statement.
Return ==
    /\ call # Idle
    /\ call' = Idle
    /\ ret' = None
    /\ UNCHANGED <<children, inserted, objects>>

Next ==
    \/ \E key \in Keys : Insert(key)
    \/ \E key \in Keys : Find(key)
    \/ \E key \in Keys, minlen \in 1..MaxMinlen : Shorten(key, minlen)
    \/ \E minlen \in 0..MaxMinlen : Prefixes(minlen)
    \/ \E minlen \in 0..MaxMinlen : FoundPrefixes(minlen)
    \/ Return

Spec == Init /\ [][Next]_vars

----------------------------------------------------------------------------
\* The Bcache class and main.  children is here the class-level trie
\* Bcache.ids, shared by all objects.  An object is a record of its type, its
\* _parent and its _id, each of the last two None or a string; its path is
\* left out, as only the printing reads it.

\* The identifier given to every cache object ("Null" in the source), as a
\* string over Symbols.
NullId == <<"b", "a">>

\* str(None)
NoneStr == Str(<<"N", "o", "n", "e">>)

\* Bcache.__init__ and the assignments that follow it.
Bcache(type, parent, id) == [type |-> type, _parent |-> parent, _id |-> id]

\* Bcache.id, the getter.
id(t, self) ==
    IF self._id.tag = "none" THEN NoneStr
    ELSE shorten(t, self._id.s, IdMinlen)

\* Bcache.parent, the getter.
parent(t, self) ==
    IF self._parent.tag = "none" THEN NoneStr
    ELSE shorten(t, self._parent.s, IdMinlen)

\* The directory of /sys/fs/bcache whose loop body is running: the one of
\* the last object found.
CurrentFile ==
    LET last == objects[Len(objects)] IN
    IF last.type = "cset" THEN last._id.s ELSE last._parent.s

\* Bcache._find_fs_bcache, one directory: a cset object whose id is the
\* directory name.  glob gives every name once.
FindCset(file) ==
    /\ call = Idle
    /\ Len(objects) < MaxObjects
    /\ \A i \in 1..Len(objects) :
          objects[i].type = "cset" => objects[i]._id.s # file
    /\ Cardinality(DOMAIN insert(children, <<>>, file)) <= MaxNodes + 1
    /\ children' = insert(children, <<>>, file)
    /\ inserted' = inserted \cup {file}
    /\ objects' = Append(objects, Bcache("cset", None, Str(file)))
    /\ UNCHANGED <<call, ret>>

\* Bcache._find_fs_bcache, one bdev* link of the current directory: the
\* parent setter inserts the directory name, the id setter the backing
\* device uuid.
FindBdev(uuid) ==
    /\ call = Idle
    /\ Len(objects) >= 1
    /\ Len(objects) < MaxObjects
    /\ objects[Len(objects)].type \in {"cset", "bdev"}
    /\ LET t1 == insert(children, <<>>, CurrentFile)
           t2 == insert(t1, <<>>, uuid)
       IN  /\ Cardinality(DOMAIN t2) <= MaxNodes + 1
           /\ children' = t2
    /\ inserted' = inserted \cup {CurrentFile, uuid}
    /\ objects' = Append(objects,
                         Bcache("bdev", Str(CurrentFile), Str(uuid)))
    /\ UNCHANGED <<call, ret>>

\* Bcache._find_fs_bcache, one cache* link of the current directory.
FindCache ==
    /\ call = Idle
    /\ Len(objects) >= 1
    /\ Len(objects) < MaxObjects
    /\ LET t1 == insert(children, <<>>, CurrentFile)
           t2 == insert(t1, <<>>, NullId)
       IN  /\ Cardinality(DOMAIN t2) <= MaxNodes + 1
           /\ children' = t2
    /\ inserted' = inserted \cup {CurrentFile, NullId}
    /\ objects' = Append(objects,
                         Bcache("cache", Str(CurrentFile), Str(NullId)))
    /\ UNCHANGED <<call, ret>>

\* main, first loop: objects without a parent are listed in parents, the
\* others are appended to the entry of the children dictionary whose key is
\* their shortened parent.  The dictionary is a list of entries in the order
\* the keys were first used; objects are named by their place in objects.
RECURSIVE group(_, _, _, _)
group(t, objs, i, acc) ==
    IF i > Len(objs) THEN acc
    ELSE IF objs[i]._parent.tag = "none"
    THEN group(t, objs, i + 1, [acc EXCEPT !.parents = Append(@, i)])
    ELSE LET key == parent(t, objs[i])
             at == {n \in 1..Len(acc.children) : acc.children[n].key = key}
         IN  IF at = {}
             THEN group(t, objs, i + 1,
                        [acc EXCEPT !.children =
                            Append(@, [key |-> key, members |-> <<i>>])])
             ELSE LET n == CHOOSE x \in at : TRUE
                  IN  group(t, objs, i + 1,
                            [acc EXCEPT !.children[n].members = Append(@, i)])

\* main, second loop: every parent is printed, then the objects under the
\* key parent.id; a key the dictionary does not have raises KeyError.
RECURSIVE show(_, _, _, _, _)
show(t, objs, acc, n, out) ==
    IF n > Len(acc.parents) THEN [printed |-> out, error |-> "none"]
    ELSE LET p == acc.parents[n]
             key == id(t, objs[p])
             at == {x \in 1..Len(acc.children) : acc.children[x].key = key}
         IN  IF at = {}
             THEN [printed |-> Append(out, p), error |-> "KeyError"]
             ELSE show(t, objs, acc, n + 1,
                       Append(out, p)
                           \o acc.children[CHOOSE x \in at : TRUE].members)

\* main, without the argument parsing.
main(t, objs) ==
    LET acc == group(t, objs, 1, [parents |-> <<>>, children |-> <<>>])
        r == show(t, objs, acc, 1, <<>>)
    IN  [tag |-> "main", parents |-> acc.parents, children |-> acc.children,
         printed |-> r.printed, error |-> r.error]

\* main runs once Bcache.find has returned the objects.
Main ==
    /\ call = Idle
    /\ call' = [op |-> "main"]
    /\ ret' = main(children, objects)
    /\ UNCHANGED <<children, inserted, objects>>

BcacheNext ==
    \/ \E file \in Keys : FindCset(file)
    \/ \E uuid \in Keys : FindBdev(uuid)
    \/ FindCache
    \/ Main

BcacheSpec == Init /\ [][BcacheNext]_vars

----------------------------------------------------------------------------
\* Structural sanity of the model state.
TypeOK ==
    /\ <<>> \in DOMAIN children
    /\ \A p \in DOMAIN children : children[p] \subseteq Symbols
    /\ inserted \subseteq Keys
    /\ Cardinality(DOMAIN children) <= MaxNodes + 1

\* The inserted keys that begin with p.
Matching(p) == {k \in inserted : IsPrefix(p, k)}

\* The symbols of the run of one-child nodes below node p, up to the first
\* node that has no child or several.
RECURSIVE SingleChildRun(_, _)
SingleChildRun(t, p) ==
    IF Cardinality(t[p]) = 1
    THEN LET c == CHOOSE x \in t[p] : TRUE
         IN  <<c>> \o SingleChildRun(t, Append(p, c))
    ELSE <<>>

Min(a, b) == IF a < b THEN a ELSE b

----------------------------------------------------------------------------
\* C1: when shorten(K, minlen) of an inserted key K returns a prefix, no
\* other inserted key begins with that prefix.
C1_ShortenUnique ==
    (call.op = "shorten" /\ call.key \in inserted /\ ret.tag = "str")
        => \A k \in inserted \ {call.key} : ~IsPrefix(ret.s, k)

\* C2: for an inserted key K whose node is a leaf, shorten(K, minlen) is a
\* prefix and find of that prefix returns the string K.
C2_RoundTrip ==
    (call.op = "shorten" /\ call.key \in inserted /\ children[call.key] = {})
        => /\ ret.tag = "str"
           /\ find(children, <<>>, ret.s) = Str(call.key)

C2_Witness ==
    /\ call.op = "shorten"
    /\ call.key \in inserted
    /\ children[call.key] = {}
    /\ Cardinality(inserted) >= 2
    /\ ret.tag = "str"
    /\ Len(ret.s) < Len(call.key)
    /\ Len(ret.s) > call.minlen
    /\ find(children, <<>>, ret.s) = Str(call.key)

\* C3: when find(prefix) returns a string K, K is an inserted key that
\* begins with prefix and no other inserted key begins with prefix; when
\* several inserted keys begin with prefix, find returns an ambiguous result.
C3_FindUnique ==
    call.op = "find"
        => /\ ret.tag = "str"
                => /\ ret.s \in inserted
                   /\ IsPrefix(call.key, ret.s)
                   /\ Matching(call.key) = {ret.s}
           /\ Cardinality(Matching(call.key)) >= 2 => ret.tag = "tuple"

\* C4: after at least one insert, every element of prefixes(minlen=0) on the
\* root is a prefix of exactly one inserted key.
C4_PrefixesUnique ==
    (call.op = "prefixes" /\ call.node = <<>> /\ call.minlen = 0
                          /\ inserted # {})
        => \A p \in ret.found : Cardinality(Matching(p)) = 1

\* C5 as stated: the string of an ambiguous find holds only the symbols
\* consumed after prefix along the run of one-child nodes, and is empty when
\* the node prefix leads to has several children.
C5_RunOnly ==
    (call.op = "find" /\ ret.tag = "tuple")
        => ret.s = SingleChildRun(children, call.key)

\* C5 as amended: the string of an ambiguous find is prefix itself followed
\* by the symbols consumed after prefix along the run of one-child nodes, and
\* is prefix itself when the node prefix leads to has several children.
C5_PrefixThenRun ==
    (call.op = "find" /\ ret.tag = "tuple")
        => /\ ret.s = call.key \o SingleChildRun(children, call.key)
           /\ Cardinality(children[call.key]) >= 2 => ret.s = call.key

C5_Witness ==
    /\ call.op = "find"
    /\ ret.tag = "tuple"
    /\ SingleChildRun(children, call.key) # <<>>
    /\ ret.s # call.key

\* C6: the string s of an ambiguous find on the root is the path from the
\* root to the returned node, that node has two or more children, and every
\* inserted key that begins with prefix also begins with s.
C6_AmbiguousPath ==
    (call.op = "find" /\ ret.tag = "tuple")
        => /\ IsPrefix(call.key, ret.s)
           /\ ret.s = ret.node
           /\ Cardinality(children[ret.node]) >= 2
           /\ \A k \in Matching(call.key) : IsPrefix(ret.s, k)

\* C7 as stated: a prefix returned by shorten(K, minlen) is at least minlen
\* symbols long.
C7_AtLeastMinlen ==
    (call.op = "shorten" /\ ret.tag = "str") => Len(ret.s) >= call.minlen

\* C7 as amended: a prefix returned by shorten(K, minlen) is at least minlen
\* symbols long, or is the whole of K when K is shorter than minlen.
C7_AtLeastMinlenOrWhole ==
    (call.op = "shorten" /\ ret.tag = "str")
        => /\ IsPrefix(ret.s, call.key)
           /\ Len(ret.s) >= Min(call.minlen, Len(call.key))

C7_Witness ==
    /\ call.op = "shorten"
    /\ ret.tag = "str"
    /\ Len(ret.s) = call.minlen
    /\ Cardinality(inserted) >= 2
    /\ Len(shorten(children, call.key, 1).s) > 1
    /\ Len(shorten(children, call.key, 1).s) < call.minlen

\* C8: for m1 <= m2, shorten(K, m1) is absent exactly when shorten(K, m2)
\* is, and otherwise shorten(K, m1) is a prefix, no longer, of
\* shorten(K, m2).
C8_Monotone ==
    call.op = "shorten"
        => \A m1 \in 1..call.minlen :
              LET r1 == shorten(children, call.key, m1) IN
              /\ (r1 = False) <=> (ret = False)
              /\ ret.tag = "str"
                    => /\ r1.tag = "str"
                       /\ Len(r1.s) <= Len(ret.s)
                       /\ IsPrefix(r1.s, ret.s)

C8_Witness ==
    /\ call.op = "shorten"
    /\ call.minlen >= 2
    /\ ret.tag = "str"
    /\ Cardinality(inserted) >= 2
    /\ Len(shorten(children, call.key, 1).s) > 1
    /\ Len(shorten(children, call.key, 1).s) < Len(ret.s)

\* C9: an insert of a key that was inserted before changes no node, so
\* prefixes and shorten return afterwards what they returned before.
C9_Idempotent ==
    [][(call'.op = "insert" /\ call'.key \in inserted)
          => /\ children' = children
             /\ \A m \in 0..MaxMinlen :
                   prefixes(children', <<>>, <<>>, m)
                       = prefixes(children, <<>>, <<>>, m)
             /\ \A k \in Keys, m \in 1..MaxMinlen :
                   shorten(children', k, m) = shorten(children, k, m)]_vars

C9_Witness ==
    /\ call.op = "insert"
    /\ call.known
    /\ Cardinality(inserted) >= 2
    /\ children[call.key] # {}

\* C10: prefixes(minlen=0) on the root holds no two distinct elements of
\* which one is a prefix of the other.
C10_Disjoint ==
    (call.op = "prefixes" /\ call.node = <<>> /\ call.minlen = 0)
        => \A p, q \in ret.found : p # q => ~IsPrefix(p, q)

C10_Witness ==
    /\ call.op = "prefixes"
    /\ call.node = <<>>
    /\ call.minlen = 0
    /\ Cardinality(ret.found) >= 3
    /\ \E p \in ret.found : Len(p) >= 2

----------------------------------------------------------------------------
\* The non-empty prefixes of k, k included.
PrefixesOf(k) == {SubSeq(k, 1, n) : n \in 1..Len(k)}

\* Some inserted key is k followed by at least one more symbol.
HasExtension(k) == \E k2 \in inserted : IsPrefix(k, k2) /\ k2 # k

Max(a, b) == IF a > b THEN a ELSE b

\* The number of symbols that lead to the deepest node on k's path, below
\* the root and above k's own node, that has two or more children; 0 when
\* there is none.
BranchDepth(k) ==
    LET ds == {n \in 1..(Len(k) - 1) :
                  Cardinality(children[SubSeq(k, 1, n)]) >= 2}
    IN  IF ds = {} THEN 0 ELSE CHOOSE n \in ds : \A m \in ds : m <= n

\* The trie got by inserting the keys of S one after the other, in the order
\* CHOOSE picks them.
RECURSIVE InsertAll(_, _)
InsertAll(t, S) ==
    IF S = {} THEN t
    ELSE LET k == CHOOSE x \in S : TRUE
         IN  InsertAll(insert(t, <<>>, k), S \ {k})

\* C11: find(prefix) returns False exactly when no inserted key begins with
\* prefix, and a find, failed or not, leaves the trie as it was.
C11_NotFound ==
    /\ [](call.op = "find" => ((ret = False) <=> (Matching(call.key) = {})))
    /\ [][call'.op = "find" => children' = children]_vars

C11_Witness ==
    /\ call.op = "find"
    /\ ret = False
    /\ Cardinality(inserted) >= 2
    /\ \E k \in inserted : IsPrefix(SubSeq(call.key, 1, Len(call.key) - 1), k)
                           /\ Len(call.key) >= 2

\* C12: shorten(K, minlen) returns a prefix exactly when K's path exists and
\* ends at a node with no children; so, in every state where some inserted
\* key is K followed by more symbols, shorten(K, minlen) is absent, whether K
\* was inserted itself or not.
C12_TerminalInference ==
    /\ call.op = "shorten"
          => ((ret.tag = "str")
                 <=> (call.key \in DOMAIN children /\ children[call.key] = {}))
    /\ \A k \in Keys : HasExtension(k)
          => \A m \in 1..MaxMinlen : shorten(children, k, m) = False

C12_Witness ==
    /\ call.op = "shorten"
    /\ call.key \in inserted
    /\ HasExtension(call.key)
    /\ ret = False
    /\ \E k \in Keys \ inserted : HasExtension(k)

\* C13: the non-empty paths of the trie are exactly the non-empty prefixes of
\* the inserted keys, and the path of every leaf among them is an inserted
\* key.
C13_Structure ==
    /\ DOMAIN children \ {<<>>} = UNION {PrefixesOf(k) : k \in inserted}
    /\ \A p \in DOMAIN children \ {<<>>} : children[p] = {} => p \in inserted
    /\ \A p \in DOMAIN children :
          children[p] = {c \in Symbols : Append(p, c) \in DOMAIN children}

C13_Witness ==
    /\ Cardinality(inserted) >= 2
    /\ \E p \in DOMAIN children \ {<<>>} : p \notin inserted
    /\ \E p \in inserted : children[p] # {}

\* C14: an insert(key) keeps every node with the children it had and adds
\* only nodes whose paths are prefixes of key.
C14_OnlyGrows ==
    [][call'.op = "insert"
          => /\ \A p \in DOMAIN children :
                   /\ p \in DOMAIN children'
                   /\ children[p] \subseteq children'[p]
                   /\ \A c \in children'[p] \ children[p] :
                         IsPrefix(Append(p, c), call'.key)
             /\ \A p \in DOMAIN children' \ DOMAIN children :
                   IsPrefix(p, call'.key)]_vars

C14_Witness ==
    /\ call.op = "insert"
    /\ ~call.known
    /\ \E p \in DOMAIN children : p # <<>> /\ ~IsPrefix(p, call.key)
    /\ \E p \in DOMAIN children : p # <<>> /\ IsPrefix(p, call.key)
                                  /\ Cardinality(children[p]) >= 2

\* C15: when shorten(K, minlen) returns p, every proper prefix of p of at
\* least minlen symbols is a prefix of no or of several inserted keys, and
\* len(p) = min(len(K), max(minlen, d + 1)), d the depth of the deepest
\* branching node on K's path below the root (0 when there is none).
C15_Minimal ==
    (call.op = "shorten" /\ ret.tag = "str")
        => /\ \A n \in call.minlen..(Len(ret.s) - 1) :
                 Cardinality(Matching(SubSeq(ret.s, 1, n))) # 1
           /\ Len(ret.s) = Min(Len(call.key),
                               Max(call.minlen, BranchDepth(call.key) + 1))

C15_Witness ==
    /\ call.op = "shorten"
    /\ ret.tag = "str"
    /\ BranchDepth(call.key) >= 1
    /\ Len(ret.s) > call.minlen
    /\ Len(ret.s) < Len(call.key)

\* C16: for every inserted key K and every minlen, prefixes(minlen) on the
\* root holds an element that is a prefix of K.
C16_Coverage ==
    (call.op = "prefixes" /\ call.node = <<>>)
        => \A k \in inserted : \E p \in ret.found : IsPrefix(p, k)

\* C17: every element p of prefixes(minlen) on the root has minlen symbols
\* or more or is the path of a leaf, and every proper prefix of p leads to a
\* node with two or more children or is shorter than minlen.
C17_Floor ==
    (call.op = "prefixes" /\ call.node = <<>>)
        => \A p \in ret.found :
              /\ p \in DOMAIN children
              /\ Len(p) >= call.minlen \/ children[p] = {}
              /\ \A n \in 0..(Len(p) - 1) :
                    \/ Cardinality(children[SubSeq(p, 1, n)]) >= 2
                    \/ n < call.minlen

C17_Witness ==
    /\ call.op = "prefixes"
    /\ call.node = <<>>
    /\ call.minlen = 2
    /\ \E p \in ret.found : Len(p) = 2 /\ children[p] # {}
    /\ \E p \in ret.found : Len(p) < 2

\* C18: the trie depends only on the set of keys inserted, not on the order
\* or the repetitions of the insert calls: it is the trie any one order of
\* inserting that set gives.
C18_OrderIndependent == children = InsertAll(TrieInit, inserted)

C18_Witness ==
    /\ call.op = "insert"
    /\ call.known
    /\ Cardinality(inserted) >= 3
    /\ \E k \in inserted : HasExtension(k)

\* C19: when main runs, any two distinct identifiers inserted in Bcache.ids
\* have distinct labels shorten(id, 4), and no entry of main's children
\* dictionary holds objects of two different parents.
C19_LabelsInjective ==
    call.op = "main"
        => /\ \A x, y \in inserted :
                 x # y => shorten(children, x, IdMinlen)
                              # shorten(children, y, IdMinlen)
           /\ \A n \in 1..Len(ret.children) :
                 LET members == ret.children[n].members IN
                 \A i, j \in 1..Len(members) :
                    objects[members[i]]._parent = objects[members[j]]._parent

====
